---- MODULE Spec2Model ----
(***************************************************************************)
(* A model of qmkpy: the quadratic multiple knapsack problem (QMKP), its   *)
(* profit and feasibility functions (qmkpy/qmkp.py, qmkpy/checks.py), the  *)
(* value density and chromosome conversions (qmkpy/util.py) and the four   *)
(* solution algorithms (qmkpy/algorithms.py).                              *)
(*                                                                         *)
(* Arrays are functions over 0-based index ranges.  A 2-D array is a       *)
(* function of rows to functions of columns, A[i][k].  Floating point      *)
(* quotients of small integers are kept as exact fractions [num, den].     *)
(***************************************************************************)
EXTENDS Integers, Sequences, FiniteSets, TLC

\* Bounds of the model.
NumItems == 3
NumKs == 2
MaxWeight == 2
MaxCap == 3
MaxProfit == 1
AlphaDen == 4
MaxHistory == 2
MaxPlaced == 2
MaxEntry == 2
MaxOrderLen == 2

Items == 0 .. (NumItems - 1)
Knapsacks == 0 .. (NumKs - 1)

ValueError == "ValueError"
AxisError == "AxisError"

----------------------------------------------------------------------------
\* Generic array helpers (numpy semantics on small integer arrays).

\* The sum of the first n entries of an array.
RECURSIVE SumUpTo(_, _)
SumUpTo(f, n) == IF n = 0 THEN 0 ELSE f[n - 1] + SumUpTo(f, n - 1)

\* np.sum of a 1-D array, a function on 0 .. n-1.
Sum(f) == SumUpTo(f, Cardinality(DOMAIN f))

MinOf(S) == CHOOSE x \in S : \A y \in S : x <= y
MaxOf(S) == CHOOSE x \in S : \A y \in S : x >= y

Range(n) == 0 .. (n - 1)

\* np.zeros((rows, cols))
zeros(rows, cols) == [i \in Range(rows) |-> [k \in Range(cols) |-> 0]]

\* All integer matrices of a shape with entries in a set.
Matrices(rows, cols, vals) == [Range(rows) -> [Range(cols) -> vals]]

\* np.shape of a 2-D array with at least one row.
shape(A) == <<Cardinality(DOMAIN A), Cardinality(DOMAIN A[0])>>

\* Symmetric profit matrices with entries in 0 .. MaxProfit.
SymmetricProfits ==
    {P \in [Items -> [Items -> 0 .. MaxProfit]] :
        \A i, j \in Items : P[i][j] = P[j][i]}

\* The profit matrices of the problems the algorithms are run on: symmetric,
\* item profits p_ii in 1 .. MaxProfit, joint profits p_ij in 0 .. MaxProfit.
ProblemProfits == {P \in SymmetricProfits : \A i \in Items : P[i][i] >= 1}

WeightVectors == [Items -> 1 .. MaxWeight]
CapacityVectors == [Knapsacks -> 0 .. MaxCap]

----------------------------------------------------------------------------
\* qmkpy/checks.py

is_binary(x) ==
    \A i \in DOMAIN x : \A k \in DOMAIN x[i] : x[i][k] = 0 \/ x[i][k] = 1

----------------------------------------------------------------------------
\* qmkpy/qmkp.py

\* ks_profits without the term assignments.T @ diag(profits).
ks_profits_no_main_diag(profits, assignments) ==
    [k \in DOMAIN assignments[0] |->
        Sum([i \in DOMAIN assignments |->
                Sum([j \in DOMAIN assignments |->
                        assignments[i][k] * profits[i][j] * assignments[j][k]])])]

\* ks_profits = assignments.T @ diag(profits) + diag(assignments.T @ profits @ assignments)
ks_profits(profits, assignments) ==
    [k \in DOMAIN assignments[0] |->
        LET rows == DOMAIN assignments
            _double_main_diag ==
                Sum([i \in rows |-> assignments[i][k] * profits[i][i]])
            _profit_matrix_kk ==
                Sum([i \in rows |->
                        Sum([j \in rows |->
                                assignments[i][k] * profits[i][j] * assignments[j][k]])])
        IN _double_main_diag + _profit_matrix_kk]

\* np.sum(ks_profits), the numerator of the returned value.
sum_ks_profits(profits, assignments) ==
    Sum(ks_profits(profits, assignments))

\* The returned float np.sum(ks_profits) / 2.  The profit matrices of the model
\* are symmetric, so the numerator is even and the quotient an integer.
total_profit_qmkp(profits, assignments) ==
    IF ~is_binary(assignments) THEN ValueError
    ELSE sum_ks_profits(profits, assignments) \div 2

----------------------------------------------------------------------------
\* qmkpy/util.py

\* np.where(~np.any(assignments, axis=1))[0]: the rows without a nonzero entry.
unassigned_items(assignments) ==
    {i \in DOMAIN assignments : \A k \in DOMAIN assignments[i] : assignments[i][k] = 0}

\* contributions without the term diag(diag(profits)) @ (1 - assignments).
contributions_profits_at_assignments(profits, assignments) ==
    [i \in DOMAIN assignments |->
        [k \in DOMAIN assignments[i] |->
            Sum([j \in DOMAIN assignments |-> profits[i][j] * assignments[j][k]])]]

\* contributions = profits @ assignments + diag(diag(profits)) @ (1 - assignments)
contributions(profits, assignments) ==
    [i \in DOMAIN assignments |->
        [k \in DOMAIN assignments[i] |->
            Sum([j \in DOMAIN assignments |-> profits[i][j] * assignments[j][k]])
            + profits[i][i] * (1 - assignments[i][k])]]

\* The contributions without the division by the weights.
value_density_undivided(profits, weights, assignments) ==
    LET c == contributions(profits, assignments)
    IN [i \in DOMAIN assignments |->
           [k \in DOMAIN assignments[i] |-> [num |-> c[i][k], den |-> 1]]]

\* densities = contributions / weights (row-wise), as exact fractions.
value_density(profits, weights, assignments) ==
    LET c == contributions(profits, assignments)
    IN [i \in DOMAIN assignments |->
           [k \in DOMAIN assignments[i] |-> [num |-> c[i][k], den |-> weights[i]]]]

\* Comparison of two densities with positive denominators.
DensityLess(a, b) == a.num * b.den < b.num * a.den

----------------------------------------------------------------------------
\* Optional arguments: None is the empty tuple, a given value x is <<x>>.
None == <<>>
Some(x) == <<x>>
IsNone(o) == Len(o) = 0
Get(o) == o[1]

----------------------------------------------------------------------------
\* Array objects.  An array the caller passed is named by its argument
\* ("capacities", "starting_assignment"); "new" is an array the call made.

\* np.asarray of an array: the array itself.
np_asarray(object) == object

\* np.array(x), with copy=True by default: a new array.
np_array(object) == "new"

\* np.copy(x): a new array.
np_copy(object) == "new"

\* x - y: a new array.
np_subtract(object) == "new"

\* The array a write through the working array lands in besides the working
\* array itself: the caller's array when the two are one object.
written_through(object, name, new, old) == IF object = name THEN new ELSE old

----------------------------------------------------------------------------
\* What a call gives: the returned value, or the raised error and the
\* condition its message reports.
Returned(v) == [raised |-> "", msg |-> "", value |-> v]
Raised(e, m) == [raised |-> e, msg |-> m, value |-> FALSE]

----------------------------------------------------------------------------
\* qmkpy/algorithms.py: constructive_procedure

\* weights @ assignments: the load of every knapsack.
load(weights, A) ==
    [k \in DOMAIN A[0] |->
        Sum([i \in DOMAIN A |-> weights[i] * A[i][k]])]

\* A start that is always the zero matrix.
given_start_zeros(weights, capacities, start) ==
    zeros(Cardinality(DOMAIN weights), Cardinality(DOMAIN capacities))

\* The objects constructive_procedure writes to: capacities (lines 65, 81)
\* and solution (line 95).
cp_capacities == np_subtract(np_array("capacities"))
cp_solution == np_copy("starting_assignment")

\* The starting assignment the procedures work from (lines 71-72, 318-319).
given_start(weights, capacities, start) ==
    IF IsNone(start)
    THEN zeros(Cardinality(DOMAIN weights), Cardinality(DOMAIN capacities))
    ELSE Get(start)

\* The checks of lines 73-78 only: the check of the remaining capacities of
\* lines 83-86 is left out.
cp_error_unloaded(weights, capacities, start) ==
    LET sa == given_start(weights, capacities, start)
    IN IF ~is_binary(sa) THEN "binary"
       ELSE IF shape(sa) # <<Cardinality(DOMAIN weights), Cardinality(DOMAIN capacities)>>
            THEN "shape"
       ELSE "None"

\* The checks of the starting assignment in the order of lines 73-86: the
\* condition of the ValueError that is raised, "None" when none is.
cp_error(weights, capacities, start) ==
    LET sa == given_start(weights, capacities, start)
    IN IF ~is_binary(sa) THEN "binary"
       ELSE IF shape(sa) # <<Cardinality(DOMAIN weights), Cardinality(DOMAIN capacities)>>
            THEN "shape"
       ELSE IF \E k \in DOMAIN capacities : capacities[k] - load(weights, sa)[k] < 0
            THEN "capacity"
       ELSE "None"

\* TRUE when constructive_procedure raises a ValueError at its checks.
start_rejected(weights, capacities, start) ==
    cp_error(weights, capacities, start) # "None"

\* The capacities without the load of the starting assignment taken off.
remaining_unloaded(weights, capacities, A) == capacities

\* capacities - start_load.  (f @@ <<>> is f: it makes TLC hold the new array
\* as an explicit function.)
remaining(weights, capacities, A) ==
    [k \in DOMAIN capacities |-> capacities[k] - load(weights, A)[k]] @@ <<>>

\* The condition of the while loop (line 96).
cp_loop_condition(weights, remain, sol) ==
    LET un == unassigned_items(sol)
    IN /\ un # {}
       /\ MinOf({weights[i] : i \in un}) < MaxOf({remain[k] : k \in DOMAIN remain})

\* The pairs (unassigned item, knapsack) without the test of line 101.
fitting_pairs_unchecked(weights, remain, sol) ==
    unassigned_items(sol) \X DOMAIN remain

\* The pairs (unassigned item, knapsack) that fit (line 101).
fitting_pairs(weights, remain, sol) ==
    {pr \in unassigned_items(sol) \X DOMAIN remain : weights[pr[1]] <= remain[pr[2]]}

\* Any fitting pair, whatever its density.
cp_selection_any_fit(profits, weights, remain, sol) ==
    fitting_pairs(weights, remain, sol)

\* The pairs the scan of lines 97-104 can commit: the scan runs through the
\* pairs by descending density and commits the first one that fits, so it
\* commits a fitting pair of the greatest density among the fitting pairs.
\* np.argsort is not stable: the order among equal densities is not fixed.
cp_selection(profits, weights, remain, sol) ==
    LET vd == value_density(profits, weights, sol)
        fit == fitting_pairs(weights, remain, sol)
    IN {pr \in fit :
           \A q \in fit : ~DensityLess(vd[pr[1]][pr[2]], vd[q[1]][q[2]])}

\* solution[idx_element, idx_user] = 1
assign(sol, i, k) == [sol EXCEPT ![i][k] = 1]

\* capacities[idx_user] = capacities[idx_user] - weights[idx_element]
deduct(weights, remain, i, k) == [remain EXCEPT ![k] = remain[k] - weights[i]]

\* The outcomes of the loop of lines 96-107 from a working state.
RECURSIVE cp_complete(_, _, _, _)
cp_complete(profits, weights, remain, sol) ==
    IF cp_loop_condition(weights, remain, sol)
    THEN LET sel == cp_selection(profits, weights, remain, sol)
         IN UNION {cp_complete(profits, weights,
                               deduct(weights, remain, pr[1], pr[2]),
                               assign(sol, pr[1], pr[2])) : pr \in sel}
    ELSE {sol}

\* A whole call of constructive_procedure that passes the checks: the set of
\* assignments it can return.
constructive_procedure(profits, weights, capacities, start) ==
    LET sa == given_start(weights, capacities, start)
    IN cp_complete(profits, weights, remaining(weights, capacities, sa), sa)

----------------------------------------------------------------------------
\* qmkpy/algorithms.py: round_robin

\* The objects round_robin writes to: remain_capac (line 336) and
\* assignments (line 343).
rr_remain_capac == np_subtract("capacities")
rr_assignments == np_copy("starting_assignment")

\* np.arange(num_ks) as a sequence.
arange(n) == [p \in 1 .. n |-> p - 1]

\* The order in use with the knapsacks of the default in descending order.
given_order_descending(capacities, order) ==
    IF IsNone(order) \/ Len(Get(order)) = 0
    THEN [p \in 1 .. Cardinality(DOMAIN capacities) |->
             Cardinality(DOMAIN capacities) - p]
    ELSE Get(order)

\* The order np.arange(num_ks) whatever order is passed.
given_order_default(capacities, order) == arange(Cardinality(DOMAIN capacities))

\* The order of the knapsacks in use (lines 328-329).
given_order(capacities, order) ==
    IF IsNone(order) THEN arange(Cardinality(DOMAIN capacities))
    ELSE IF Len(Get(order)) = 0 THEN arange(Cardinality(DOMAIN capacities))
    ELSE Get(order)

\* The check of lines 330-333: TRUE when a ValueError is raised.
order_rejected(capacities, order) ==
    LET o == given_order(capacities, order)
    IN \E p \in DOMAIN o : o[p] \notin DOMAIN capacities

\* The checks of round_robin in the order of lines 321-341: the condition of
\* the ValueError that is raised, "None" when none is.
rr_error(weights, capacities, start, order) ==
    LET sa == given_start(weights, capacities, start)
    IN IF ~is_binary(sa) THEN "binary"
       ELSE IF shape(sa) # <<Cardinality(DOMAIN weights), Cardinality(DOMAIN capacities)>>
            THEN "shape"
       ELSE IF order_rejected(capacities, order) THEN "order"
       ELSE IF \E k \in DOMAIN capacities : capacities[k] - load(weights, sa)[k] < 0
            THEN "capacity"
       ELSE "None"

\* TRUE when round_robin raises a ValueError at its checks.
rr_rejected(weights, capacities, start, order) ==
    rr_error(weights, capacities, start, order) # "None"

\* The condition of the while loop (lines 348-350).
rr_loop_condition(weights, remain, sol, o) ==
    LET un == unassigned_items(sol)
    IN /\ un # {}
       /\ MinOf({weights[i] : i \in un}) < MaxOf({remain[o[p]] : p \in DOMAIN o})

\* No turn finds an item that fits.
rr_some_fits_never(weights, remain, sol, k) == FALSE

\* np.any(weights[unassigned] <= remain_capac[idx_ks]) (line 352)
rr_some_fits(weights, remain, sol, k) ==
    \E i \in unassigned_items(sol) : weights[i] <= remain[k]

\* Any unassigned item that fits knapsack k, whatever its density.
rr_selection_any_fit(profits, weights, remain, sol, k) ==
    {i \in unassigned_items(sol) : weights[i] <= remain[k]}

\* The items the turn of knapsack k can select (lines 354-359): the first
\* fitting item in the order of descending density for k.
rr_selection(profits, weights, remain, sol, k) ==
    LET vd == value_density(profits, weights, sol)
        fit == {i \in unassigned_items(sol) : weights[i] <= remain[k]}
    IN {i \in fit : \A j \in fit : ~DensityLess(vd[i][k], vd[j][k])}

\* The outcomes of the for loop of lines 351-364 from position p of the
\* order: the pairs of remaining capacities and assignment after the pass.
RECURSIVE rr_pass(_, _, _, _, _, _)
rr_pass(profits, weights, remain, sol, o, p) ==
    IF p > Len(o) THEN {<<remain, sol>>}
    ELSE IF ~rr_some_fits(weights, remain, sol, o[p])
         THEN rr_pass(profits, weights, remain, sol, o, p + 1)
         ELSE UNION {rr_pass(profits, weights,
                             deduct(weights, remain, i, o[p]),
                             assign(sol, i, o[p]), o, p + 1) :
                        i \in rr_selection(profits, weights, remain, sol, o[p])}

\* The outcomes of the while loop of lines 348-364 from a working state.
RECURSIVE rr_complete(_, _, _, _, _)
rr_complete(profits, weights, remain, sol, o) ==
    IF rr_loop_condition(weights, remain, sol, o)
    THEN UNION {rr_complete(profits, weights, st[1], st[2], o) :
                   st \in rr_pass(profits, weights, remain, sol, o, 1)}
    ELSE {sol}

\* A whole call of round_robin that passes the checks: the set of
\* assignments it can return.
round_robin(profits, weights, capacities, start, order) ==
    LET sa == given_start(weights, capacities, start)
    IN rr_complete(profits, weights, remaining(weights, capacities, sa), sa,
                   given_order(capacities, order))

----------------------------------------------------------------------------
\* qmkpy/algorithms.py: random_assignment

\* Every knapsack, whatever its capacity.
avail_ks_all(weights, remain, item) == DOMAIN remain

\* The objects random_assignment writes to: capacities (line 248) and
\* assignments (line 251, np.zeros).
ra_capacities == np_array("capacities")
ra_assignments == "new"

\* np.ravel(np.argwhere(capacities >= weights[_item])) (lines 253-254)
avail_ks(weights, remain, item) == {k \in DOMAIN remain : remain[k] >= weights[item]}

\* The outcomes of the draw of line 257, np.random.rand() < 1.0 / len(avail_ks),
\* with np.random.rand() in [0, 1): it can always be true, and it can be false
\* only when 1.0 / len(avail_ks) is below 1.
skip_draws(avail) == IF Cardinality(avail) > 1 THEN {TRUE, FALSE} ELSE {TRUE}

----------------------------------------------------------------------------
\* qmkpy/algorithms.py: fcs_procedure

\* not 0 < alpha < 1 (line 178), alpha as a numerator over AlphaDen.
alpha_rejected(a) == ~(0 < a /\ a < AlphaDen)

\* The checks of lines 178-181 with alpha = 0 let through.
fcs_error_zero_alpha(a, history) ==
    IF ~(0 <= a /\ a < AlphaDen) THEN "alpha"
    ELSE IF history < 1 THEN "len_history"
    ELSE "None"

\* The checks of lines 178-181 in their order: the condition of the
\* ValueError that is raised, "None" when none is.
fcs_error(a, history) ==
    IF alpha_rejected(a) THEN "alpha"
    ELSE IF history < 1 THEN "len_history"
    ELSE "None"

\* The comparison of line 195 turned around.
improves_when_less(_profit_prime, _profit_best) == _profit_prime < _profit_best

\* _profit_prime > _profit_best (line 195)
improves(_profit_prime, _profit_best) == _profit_prime > _profit_best

\* The counter incremented by every iteration, never reset.
count_no_improvement_kept(n, _profit_prime, _profit_best) == n + 1

\* no_improvement after an iteration (lines 194-198): incremented, then reset
\* to 0 when the candidate improves on the best solution.
count_no_improvement(n, _profit_prime, _profit_best) ==
    IF improves(_profit_prime, _profit_best) THEN 0 ELSE n + 1

\* s1 = np.where(np.any(current_solution, axis=1))[0] (line 185)
placed_items(sol) == DOMAIN sol \ unassigned_items(sol)

\* Every placed item is dropped.
num_dropped_all(s1, a) == Cardinality(s1)

\* int(len(s1) * alpha) (line 186)
num_dropped(s1, a) == (Cardinality(s1) * a) \div AlphaDen

\* np.random.choice(s1, size=..., replace=False): the possible draws.
drop_choices(s1, a) == {D \in SUBSET s1 : Cardinality(D) = num_dropped(s1, a)}

\* start_assign[_dropped_items, :] = 0 on a copy (lines 187-188)
drop_rows(sol, D) ==
    [i \in DOMAIN sol |-> IF i \in D THEN [k \in DOMAIN sol[i] |-> 0] ELSE sol[i]]

----------------------------------------------------------------------------
\* qmkpy/checks.py: check_dimensions; qmkpy/qmkp.py: QMKProblem

TypeError == "TypeError"
AttributeError == "AttributeError"

\* Lines 41-49: the condition of the ValueError that is raised, "None" when
\* none is.
check_dimensions(profits, weights) ==
    IF \E i \in DOMAIN profits :
          Cardinality(DOMAIN profits[i]) # Cardinality(DOMAIN profits)
    THEN "square"
    ELSE IF Cardinality(DOMAIN weights) # Cardinality(DOMAIN profits)
         THEN "items"
    ELSE "None"

\* No array of the object is made read-only.
frozen_arrays_none == {}

\* The arrays of the object that setflags(write=False) makes read-only
\* (lines 74-76).
frozen_arrays == {"profits", "weights", "capacities"}

\* Lines 81-82: the attribute assignments is set, to the zero matrix, when the
\* argument is None, and is not set otherwise (None: no attribute).
init_assignments(weights, capacities, assignments) ==
    IF IsNone(assignments)
    THEN Some(zeros(Cardinality(DOMAIN weights), Cardinality(DOMAIN capacities)))
    ELSE None

\* The object __init__ builds (lines 68-84) when check_dimensions passes:
\* np.array copies the three arrays.  algorithm is the name of a function or
\* "None"; args is None or a given tuple.
QMKProblem(profits, weights, capacities, algorithm, args, assignments) ==
    [profits |-> profits,
     weights |-> weights,
     capacities |-> capacities,
     read_only |-> frozen_arrays,
     algorithm |-> algorithm,
     args |-> args,
     assignments |-> init_assignments(weights, capacities, assignments)]

\* The algorithm solve calls, the stored one never used.
solve_algorithm_given(self, algorithm) == algorithm

\* Lines 140-141.
solve_algorithm(self, algorithm) ==
    IF algorithm = "None" THEN self.algorithm ELSE algorithm

\* Lines 142-145.
solve_args(self, args) ==
    LET a == IF IsNone(args) THEN self.args ELSE args
    IN IF IsNone(a) THEN <<>> ELSE Get(a)

\* algorithm(profits, weights, capacities, *args) of line 146 for
\* constructive_procedure and round_robin with at most their two optional
\* arguments: the outcomes of the call.  Calling None raises a TypeError.
call_algorithm(algorithm, profits, weights, capacities, args) ==
    LET start == IF Len(args) >= 1 THEN Some(args[1]) ELSE None
        order == IF Len(args) >= 2 THEN Some(args[2]) ELSE None
    IN CASE algorithm = "constructive_procedure" ->
              IF start_rejected(weights, capacities, start)
              THEN {Raised(ValueError, cp_error(weights, capacities, start))}
              ELSE {Returned(A) :
                       A \in constructive_procedure(profits, weights, capacities, start)}
         [] algorithm = "round_robin" ->
              IF rr_rejected(weights, capacities, start, order)
              THEN {Raised(ValueError, rr_error(weights, capacities, start, order))}
              ELSE {Returned(A) :
                       A \in round_robin(profits, weights, capacities, start, order)}
         [] OTHER -> {Raised(TypeError, "not callable")}

----------------------------------------------------------------------------
\* The state: the caller's problem data and arguments, and the locals of the
\* running call.

VARIABLES
    profits,              \* the caller's profit matrix
    weights,              \* the caller's weights
    capacities,           \* the caller's capacities
    alg,                  \* the function that is called
    starting_assignment,  \* argument of constructive_procedure and round_robin
    order_ks,             \* argument of round_robin
    alpha,                \* argument of fcs_procedure (numerator over AlphaDen)
    len_history,          \* argument of fcs_procedure
    pc,                   \* position of the call
    solution,             \* the working assignment (solution / assignments)
    remain_capac,         \* the working copy of the capacities
    pos,                  \* round_robin: position of the for loop in order_ks
    visited,              \* random_assignment: items of the permutation done
    current_solution,     \* fcs_procedure
    solution_best,        \* fcs_procedure
    no_improvement,       \* fcs_procedure
    s_prime,              \* fcs_procedure: the candidate of the last iteration
    result,               \* the returned assignment
    arg,                  \* the array passed to a function of util, checks, qmkp;
                          \* the assignments passed to QMKProblem, then the
                          \* algorithm and args passed to QMKProblem.solve
    arg_ndim,             \* np.ndim of that array
    raise_error,          \* argument of is_feasible_solution
    ret,                  \* what that function returned or raised
    problem               \* the QMKProblem object, None before it is built

vars == <<profits, weights, capacities, alg, starting_assignment, order_ks,
          alpha, len_history, pc, solution, remain_capac, pos, visited,
          current_solution, solution_best, no_improvement, s_prime, result,
          arg, arg_ndim, raise_error, ret, problem>>

\* The variables of the calls of the single functions.
fn_vars == <<arg, arg_ndim, raise_error, ret>>

\* The arguments among them.
fn_args == <<arg, arg_ndim, raise_error>>

inputs == <<profits, weights, capacities, alg, starting_assignment, order_ks,
            len_history, problem>>

\* The inputs no algorithm has a write to.
read_inputs == <<profits, weights, alg, order_ks, len_history, problem>>

\* The caller's starting assignment after a write that reaches it.
start_after(object, new) ==
    IF IsNone(starting_assignment) THEN starting_assignment
    ELSE written_through(object, "starting_assignment", Some(new),
                         starting_assignment)

fcs_locals == <<current_solution, solution_best, no_improvement, s_prime>>

Algorithms ==
    {"constructive_procedure", "round_robin", "random_assignment", "fcs_procedure"}

ZeroMatrix == zeros(NumItems, NumKs)

\* No function of util, checks or qmkp is called.
FnUnset ==
    /\ arg = ZeroMatrix
    /\ arg_ndim = 2
    /\ raise_error = FALSE
    /\ ret = 0

\* The locals before the call has set them.
LocalsUnset ==
    /\ pc = "call"
    /\ solution = ZeroMatrix
    /\ remain_capac = [k \in Knapsacks |-> 0]
    /\ pos = 0
    /\ visited = {}
    /\ current_solution = ZeroMatrix
    /\ solution_best = ZeroMatrix
    /\ no_improvement = 0
    /\ s_prime = ZeroMatrix
    /\ result = ZeroMatrix
    /\ problem = None

\* A problem: symmetric profits with positive item profits, strictly positive
\* weights, capacities >= 0.
InitProblem ==
    /\ profits \in ProblemProfits
    /\ weights \in WeightVectors
    /\ capacities \in CapacityVectors

\* The values alpha = np.random.rand() takes, as numerators over AlphaDen.  The
\* draw is uniform on [0, 1); the single value 0.0 is left out.
RandomAlphas == 1 .. (AlphaDen - 1)

\* A call of one of the four algorithms with its other arguments defaulted,
\* and fcs_procedure with a valid alpha and len_history.
Init ==
    /\ InitProblem
    /\ alg \in Algorithms
    /\ starting_assignment = None
    /\ order_ks = None
    /\ alpha \in IF alg = "fcs_procedure"
                 THEN {None} \cup {Some(a) : a \in 1 .. (AlphaDen - 1)}
                 ELSE {None}
    /\ len_history \in IF alg = "fcs_procedure" THEN 1 .. MaxHistory ELSE {1}
    /\ LocalsUnset
    /\ FnUnset

\* The number of entries 1 of a binary matrix.
count_ones(A) ==
    Sum([i \in DOMAIN A |-> Sum(A[i])])

\* Binary starting assignments with at most MaxPlaced placements; a row may
\* hold two of them.
StartMatrices ==
    {A \in Matrices(NumItems, NumKs, {0, 1}) : count_ones(A) <= MaxPlaced}

\* Starting assignments the checks reject whatever the problem: N x K
\* matrices with a single entry 2, and binary (N-1) x K matrices with at most
\* one placement.
InvalidStarts ==
    {A \in Matrices(NumItems, NumKs, {0, 2}) : Sum([i \in Items |-> Sum(A[i])]) = 2}
    \cup {A \in Matrices(NumItems - 1, NumKs, {0, 1}) : count_ones(A) <= 1}

\* A call of constructive_procedure or round_robin with a starting assignment.
InitStart ==
    /\ InitProblem
    /\ alg \in {"constructive_procedure", "round_robin"}
    /\ starting_assignment \in {Some(A) : A \in StartMatrices \cup InvalidStarts}
    /\ order_ks = None
    /\ alpha = None
    /\ len_history = 1
    /\ LocalsUnset
    /\ FnUnset

----------------------------------------------------------------------------
\* constructive_procedure, step by step.

\* Lines 65-95: the checks and the working copies.
CPStart ==
    /\ pc = "call"
    /\ alg = "constructive_procedure"
    /\ IF start_rejected(weights, capacities, starting_assignment)
       THEN /\ pc' = "error"
            /\ ret' = Raised(ValueError,
                             cp_error(weights, capacities, starting_assignment))
            /\ UNCHANGED <<solution, remain_capac>>
       ELSE LET sa == given_start(weights, capacities, starting_assignment)
            IN /\ pc' = "cp_loop"
               /\ solution' = sa
               /\ remain_capac' = remaining(weights, capacities, sa)
               /\ UNCHANGED ret
    /\ UNCHANGED <<inputs, fn_args, alpha, pos, visited, fcs_locals, result>>

\* Lines 96-107: one pass of the while loop.
CPCommit ==
    /\ pc = "cp_loop"
    /\ cp_loop_condition(weights, remain_capac, solution)
    /\ \E pr \in cp_selection(profits, weights, remain_capac, solution) :
          /\ solution' = assign(solution, pr[1], pr[2])
          /\ remain_capac' = deduct(weights, remain_capac, pr[1], pr[2])
    /\ capacities' = written_through(cp_capacities, "capacities", remain_capac',
                                     capacities)
    /\ starting_assignment' = start_after(cp_solution, solution')
    /\ UNCHANGED <<read_inputs, fn_vars, alpha, pc, pos, visited, fcs_locals, result>>

\* Line 123: the loop has ended.
CPReturn ==
    /\ pc = "cp_loop"
    /\ ~cp_loop_condition(weights, remain_capac, solution)
    /\ pc' = "done"
    /\ result' = solution
    /\ UNCHANGED <<inputs, fn_vars, alpha, solution, remain_capac, pos, visited, fcs_locals>>

----------------------------------------------------------------------------
\* round_robin, step by step.

\* Lines 314-346.
RRStart ==
    /\ pc = "call"
    /\ alg = "round_robin"
    /\ IF rr_rejected(weights, capacities, starting_assignment, order_ks)
       THEN /\ pc' = "error"
            /\ ret' = Raised(ValueError,
                             rr_error(weights, capacities, starting_assignment,
                                      order_ks))
            /\ UNCHANGED <<solution, remain_capac>>
       ELSE LET sa == given_start(weights, capacities, starting_assignment)
            IN /\ pc' = "rr_while"
               /\ solution' = sa
               /\ remain_capac' = remaining(weights, capacities, sa)
               /\ UNCHANGED ret
    /\ UNCHANGED <<inputs, fn_args, alpha, pos, visited, fcs_locals, result>>

\* Lines 348-351: the while condition holds, the for loop starts.
RRPass ==
    /\ pc = "rr_while"
    /\ rr_loop_condition(weights, remain_capac, solution,
                         given_order(capacities, order_ks))
    /\ pc' = "rr_for"
    /\ pos' = 1
    /\ UNCHANGED <<inputs, fn_vars, alpha, solution, remain_capac, visited, fcs_locals, result>>

\* Lines 351-364: the turn of one knapsack.
RRTurn ==
    /\ pc = "rr_for"
    /\ LET o == given_order(capacities, order_ks)
           k == o[pos]
       IN /\ IF rr_some_fits(weights, remain_capac, solution, k)
             THEN \E i \in rr_selection(profits, weights, remain_capac, solution, k) :
                     /\ solution' = assign(solution, i, k)
                     /\ remain_capac' = deduct(weights, remain_capac, i, k)
             ELSE UNCHANGED <<solution, remain_capac>>
          /\ IF pos < Len(o)
             THEN pos' = pos + 1 /\ pc' = "rr_for"
             ELSE pos' = 0 /\ pc' = "rr_while"
    /\ capacities' = written_through(rr_remain_capac, "capacities", remain_capac',
                                     capacities)
    /\ starting_assignment' = start_after(rr_assignments, solution')
    /\ UNCHANGED <<read_inputs, fn_vars, alpha, visited, fcs_locals, result>>

\* Line 365.
RRReturn ==
    /\ pc = "rr_while"
    /\ ~rr_loop_condition(weights, remain_capac, solution,
                          given_order(capacities, order_ks))
    /\ pc' = "done"
    /\ result' = solution
    /\ UNCHANGED <<inputs, fn_vars, alpha, solution, remain_capac, pos, visited, fcs_locals>>

----------------------------------------------------------------------------
\* random_assignment, item by item.  The random permutation of line 252 is
\* drawn one item at a time: the next item is any item not yet visited.

\* Lines 248-251.
RAStart ==
    /\ pc = "call"
    /\ alg = "random_assignment"
    /\ pc' = "ra_loop"
    /\ solution' = ZeroMatrix
    /\ remain_capac' = capacities
    /\ visited' = {}
    /\ UNCHANGED <<inputs, fn_vars, alpha, pos, fcs_locals, result>>

\* Lines 252-261: one item of the permutation.
RAVisit ==
    /\ pc = "ra_loop"
    /\ \E item \in Items \ visited :
          LET avail == avail_ks(weights, remain_capac, item)
          IN /\ visited' = visited \cup {item}
             /\ IF avail = {}
                THEN UNCHANGED <<solution, remain_capac>>
                ELSE \E skip \in skip_draws(avail) :
                        IF skip
                        THEN UNCHANGED <<solution, remain_capac>>
                        ELSE \E k \in avail :
                                /\ solution' = assign(solution, item, k)
                                /\ remain_capac' = deduct(weights, remain_capac, item, k)
    /\ capacities' = written_through(ra_capacities, "capacities", remain_capac',
                                     capacities)
    /\ starting_assignment' = start_after(ra_assignments, solution')
    /\ UNCHANGED <<read_inputs, fn_vars, alpha, pc, pos, fcs_locals, result>>

\* Line 262.
RAReturn ==
    /\ pc = "ra_loop"
    /\ visited = Items
    /\ pc' = "done"
    /\ result' = solution
    /\ UNCHANGED <<inputs, fn_vars, alpha, solution, remain_capac, pos, visited, fcs_locals>>

----------------------------------------------------------------------------
\* fcs_procedure, iteration by iteration.

\* Lines 171-183: the initial constructive procedure, then the checks of
\* alpha and len_history.
FCSStart ==
    /\ pc = "call"
    /\ alg = "fcs_procedure"
    /\ IF start_rejected(weights, capacities, None)
       THEN /\ pc' = "error"
            /\ ret' = Raised(ValueError, cp_error(weights, capacities, None))
            /\ UNCHANGED <<alpha, fcs_locals>>
       ELSE \E s0 \in constructive_procedure(profits, weights, capacities, None) :
            \E a \in (IF IsNone(alpha) THEN RandomAlphas ELSE {Get(alpha)}) :
               /\ alpha' = Some(a)
               /\ IF fcs_error(a, len_history) # "None"
                  THEN /\ pc' = "error"
                       /\ ret' = Raised(ValueError, fcs_error(a, len_history))
                       /\ UNCHANGED fcs_locals
                  ELSE /\ pc' = "fcs_loop"
                       /\ current_solution' = s0
                       /\ solution_best' = s0
                       /\ no_improvement' = 0
                       /\ UNCHANGED <<s_prime, ret>>
    /\ UNCHANGED <<inputs, fn_args, solution, remain_capac, pos, visited, result>>

\* Lines 184-200: one iteration of the while loop.
FCSIterate ==
    /\ pc = "fcs_loop"
    /\ no_improvement < len_history
    /\ \E D \in drop_choices(placed_items(current_solution), Get(alpha)) :
          LET start_assign == drop_rows(current_solution, D)
          IN IF start_rejected(weights, capacities, Some(start_assign))
             THEN /\ pc' = "error"
                  /\ ret' = Raised(ValueError,
                                   cp_error(weights, capacities, Some(start_assign)))
                  /\ UNCHANGED fcs_locals
             ELSE \E candidate \in constructive_procedure(profits, weights, capacities,
                                                          Some(start_assign)) :
                  \E coin \in BOOLEAN :
                     LET _profit_best == total_profit_qmkp(profits, solution_best)
                         _profit_prime == total_profit_qmkp(profits, candidate)
                         best == IF improves(_profit_prime, _profit_best)
                                 THEN candidate ELSE solution_best
                     IN /\ s_prime' = candidate
                        /\ solution_best' = best
                        /\ no_improvement' =
                               count_no_improvement(no_improvement, _profit_prime,
                                                    _profit_best)
                        /\ current_solution' = IF coin THEN best ELSE current_solution
                        /\ pc' = "fcs_loop"
                        /\ UNCHANGED ret
    /\ UNCHANGED <<inputs, fn_args, alpha, solution, remain_capac, pos, visited, result>>

\* Line 201.
FCSReturn ==
    /\ pc = "fcs_loop"
    /\ ~(no_improvement < len_history)
    /\ pc' = "done"
    /\ result' = solution_best
    /\ UNCHANGED <<inputs, fn_vars, alpha, solution, remain_capac, pos, visited, fcs_locals>>

----------------------------------------------------------------------------
Next ==
    \/ CPStart \/ CPCommit \/ CPReturn
    \/ RRStart \/ RRPass \/ RRTurn \/ RRReturn
    \/ RAStart \/ RAVisit \/ RAReturn
    \/ FCSStart \/ FCSIterate \/ FCSReturn

Spec == Init /\ [][Next]_vars

NextStart ==
    \/ CPStart \/ CPCommit \/ CPReturn
    \/ RRStart \/ RRPass \/ RRTurn \/ RRReturn

SpecStart == InitStart /\ [][NextStart]_vars

----------------------------------------------------------------------------
\* Properties of the algorithms.

\* The N x K matrix has entries 0 and 1 only, every row sums to at most 1 and
\* the weight in every knapsack is at most its capacity.
Feasible(A) ==
    /\ DOMAIN A = Items
    /\ \A i \in Items : DOMAIN A[i] = Knapsacks
    /\ \A i \in Items : \A k \in Knapsacks : A[i][k] \in {0, 1}
    /\ \A i \in Items : Sum(A[i]) <= 1
    /\ \A k \in Knapsacks :
          Sum([i \in Items |-> weights[i] * A[i][k]]) <= capacities[k]

\* C1: the assignment returned by constructive_procedure, round_robin,
\* random_assignment and fcs_procedure, called without a starting assignment,
\* is feasible, whatever the random choices: binary N x K, every row sum at
\* most 1, every knapsack's load at most its capacity.
C1_ReturnedAssignmentFeasible ==
    (pc = "done" /\ IsNone(starting_assignment)) => Feasible(result)

\* fcs_procedure has returned an assignment with two items in one knapsack.
C1_Witness ==
    /\ pc = "done"
    /\ alg = "fcs_procedure"
    /\ IsNone(starting_assignment)
    /\ \E k \in Knapsacks : Sum([i \in Items |-> result[i][k]]) >= 2

\* C2: with an accepted starting assignment S, the working assignment and the
\* result of constructive_procedure and round_robin hold every placement of
\* S, and only items whose row of S is all-zero gain a placement.
C2_SupersetOfStart ==
    (/\ alg \in {"constructive_procedure", "round_robin"}
     /\ ~IsNone(starting_assignment)
     /\ shape(Get(starting_assignment)) = <<NumItems, NumKs>>
     /\ pc \in {"cp_loop", "rr_while", "rr_for", "done"})
    => LET S == Get(starting_assignment)
           R == IF pc = "done" THEN result ELSE solution
       IN /\ \A i \in Items : \A k \in Knapsacks : S[i][k] = 1 => R[i][k] = 1
          /\ \A i \in Items : \A k \in Knapsacks : R[i][k] - S[i][k] >= 0
          /\ \A i \in Items :
                R[i] # S[i] => \A k \in Knapsacks : S[i][k] = 0

\* round_robin has returned a completion of a starting assignment that had a
\* placement and gained another one.
C2_Witness ==
    /\ alg = "round_robin"
    /\ pc = "done"
    /\ ~IsNone(starting_assignment)
    /\ count_ones(Get(starting_assignment)) >= 1
    /\ count_ones(result) > count_ones(Get(starting_assignment))

\* The steps of fcs_procedure.
FCSStarts == pc = "call" /\ pc' = "fcs_loop"
FCSIterates == pc = "fcs_loop" /\ pc' = "fcs_loop"
FCSReturns == pc = "fcs_loop" /\ pc' = "done"

\* C3: in fcs_procedure solution_best starts as an outcome of
\* constructive_procedure on the same problem, its total profit never
\* decreases from one iteration to the next, it is replaced only by a
\* candidate of strictly greater total profit, and it is what is returned: so
\* the total profit of the returned assignment is at least that of
\* constructive_procedure.
C3_BestNeverDecreases ==
    /\ [][/\ FCSStarts =>
                solution_best' \in
                    constructive_procedure(profits, weights, capacities, None)
          /\ FCSIterates =>
                /\ total_profit_qmkp(profits, solution_best')
                     >= total_profit_qmkp(profits, solution_best)
                /\ solution_best' # solution_best =>
                     total_profit_qmkp(profits, solution_best')
                       > total_profit_qmkp(profits, solution_best)
          /\ FCSReturns => result' = solution_best]_vars
    /\ [](alg = "fcs_procedure" /\ pc = "done" =>
            \E r \in constructive_procedure(profits, weights, capacities, None) :
               total_profit_qmkp(profits, result) >= total_profit_qmkp(profits, r))

\* fcs_procedure has returned an assignment of greater total profit than
\* every outcome of constructive_procedure: an iteration has improved it.
C3_Witness ==
    /\ alg = "fcs_procedure"
    /\ pc = "done"
    /\ \A r \in constructive_procedure(profits, weights, capacities, None) :
          total_profit_qmkp(profits, result) > total_profit_qmkp(profits, r)

\* Every item is heavier than every knapsack's capacity.
NoItemFits == \A i \in Items : \A k \in Knapsacks : weights[i] > capacities[k]

----------------------------------------------------------------------------
\* qmkpy/checks.py: is_feasible_solution

\* np.any(np.sum(assignments, axis=1) > 1) for a 2-D array.
some_row_above_one(a) == \E i \in DOMAIN a : Sum(a[i]) > 1

\* np.any(loads > capacities)
some_load_above(a, w, c) == \E k \in DOMAIN c : load(w, a)[k] > c[k]

\* error_msg after the three checks of lines 131-136: each check that fails
\* assigns it.
error_msg_136(ndim, a, w, c) ==
    LET num_items == Cardinality(DOMAIN w)
        num_ks == Cardinality(DOMAIN c)
        after_shape == IF ~(ndim = 2 /\ shape(a) = <<num_items, num_ks>>)
                       THEN "shape" ELSE "None"
        after_binary == IF ~is_binary(a) THEN "binary" ELSE after_shape
    IN IF some_row_above_one(a) THEN "row_sum" ELSE after_binary

\* Lines 126-154.  np.sum(assignments, axis=1) of a 1-D array raises
\* numpy's AxisError.
is_feasible_solution(ndim, a, w, c, raise) ==
    IF ndim = 1 THEN Raised(AxisError, "axis")
    ELSE LET error_msg == error_msg_136(ndim, a, w, c)
         IN IF error_msg # "None"
            THEN IF raise THEN Raised(ValueError, error_msg) ELSE Returned(FALSE)
            ELSE IF some_load_above(a, w, c)
                 THEN IF raise THEN Raised(ValueError, "capacity") ELSE Returned(FALSE)
                 ELSE Returned(TRUE)

----------------------------------------------------------------------------
\* qmkpy/util.py: the chromosome form

\* The chromosomes chromosome_from_assignment can return (lines 168-171): -1
\* for a row without an entry 1, the column of the entry 1 otherwise.  A row
\* with several entries 1 is set several times by the indexed assignment of
\* line 170, and numpy does not fix which of them stays.
chromosome_from_assignment(assignments) ==
    {c \in [DOMAIN assignments -> {-1} \cup DOMAIN assignments[0]] :
        \A i \in DOMAIN assignments :
            IF \E k \in DOMAIN assignments[i] : assignments[i][k] = 1
            THEN c[i] >= 0 /\ assignments[i][c[i]] = 1
            ELSE c[i] = -1}

\* The conversion with chromosome > 0 as the mask of the assigned items.
assignment_from_chromosome_positive(chromosome, num_ks) ==
    [i \in DOMAIN chromosome |->
        [k \in Range(num_ks) |->
            IF chromosome[i] > 0 /\ chromosome[i] = k THEN 1 ELSE 0]]

\* Lines 207-212, for a chromosome with entries below num_ks.
assignment_from_chromosome(chromosome, num_ks) ==
    [i \in DOMAIN chromosome |->
        [k \in Range(num_ks) |->
            IF chromosome[i] >= 0 /\ chromosome[i] = k THEN 1 ELSE 0]]

----------------------------------------------------------------------------
\* Calls of the single functions, on drawn arguments.

BinaryMatrices == Matrices(NumItems, NumKs, {0, 1})

AlgUnset ==
    /\ starting_assignment = None
    /\ order_ks = None
    /\ alpha = None
    /\ len_history = 1
    /\ LocalsUnset

DefaultProfits == [i \in Items |-> [j \in Items |-> 0]]
DefaultWeights == [i \in Items |-> 1]
DefaultCapacities == [k \in Knapsacks |-> 0]

\* total_profit_qmkp(profits, arg)
InitProfit ==
    /\ profits \in SymmetricProfits
    /\ weights = DefaultWeights
    /\ capacities = DefaultCapacities
    /\ alg = "total_profit_qmkp"
    /\ arg \in BinaryMatrices
    /\ arg_ndim = 2
    /\ raise_error = FALSE
    /\ ret = 0
    /\ AlgUnset

CallTotalProfit ==
    /\ pc = "call"
    /\ alg = "total_profit_qmkp"
    /\ ret' = total_profit_qmkp(profits, arg)
    /\ pc' = "done"
    /\ UNCHANGED <<inputs, arg, arg_ndim, raise_error, alpha, solution,
                   remain_capac, pos, visited, fcs_locals, result>>

SpecProfit == InitProfit /\ [][CallTotalProfit]_vars

\* value_density(profits, weights, arg)
InitDensity ==
    /\ profits \in SymmetricProfits
    /\ weights \in WeightVectors
    /\ capacities = DefaultCapacities
    /\ alg = "value_density"
    /\ arg \in BinaryMatrices
    /\ arg_ndim = 2
    /\ raise_error = FALSE
    /\ ret = 0
    /\ AlgUnset

CallValueDensity ==
    /\ pc = "call"
    /\ alg = "value_density"
    /\ ret' = value_density(profits, weights, arg)
    /\ pc' = "done"
    /\ UNCHANGED <<inputs, arg, arg_ndim, raise_error, alpha, solution,
                   remain_capac, pos, visited, fcs_locals, result>>

SpecDensity == InitDensity /\ [][CallValueDensity]_vars

\* The arrays is_feasible_solution is called on: N x K and (N-1) x K arrays
\* with entries in 0 .. MaxEntry, and 1-D arrays of N entries 0 or 1.
CheckedArrays ==
    {<<2, a>> : a \in Matrices(NumItems, NumKs, 0 .. MaxEntry)}
    \cup {<<2, a>> : a \in Matrices(NumItems - 1, NumKs, 0 .. MaxEntry)}
    \cup {<<1, a>> : a \in [Items -> {0, 1}]}

\* is_feasible_solution(arg, profits, weights, capacities, raise_error)
InitFeasible ==
    /\ profits = DefaultProfits
    /\ weights \in WeightVectors
    /\ capacities \in CapacityVectors
    /\ alg = "is_feasible_solution"
    /\ \E x \in CheckedArrays : arg_ndim = x[1] /\ arg = x[2]
    /\ raise_error \in BOOLEAN
    /\ ret = 0
    /\ AlgUnset

CallIsFeasible ==
    /\ pc = "call"
    /\ alg = "is_feasible_solution"
    /\ ret' = is_feasible_solution(arg_ndim, arg, weights, capacities, raise_error)
    /\ pc' = IF ret'.raised = "" THEN "done" ELSE "error"
    /\ UNCHANGED <<inputs, arg, arg_ndim, raise_error, alpha, solution,
                   remain_capac, pos, visited, fcs_locals, result>>

SpecFeasible == InitFeasible /\ [][CallIsFeasible]_vars

\* assignment_from_chromosome(chromosome_from_assignment(arg), K)
InitChromosome ==
    /\ profits = DefaultProfits
    /\ weights = DefaultWeights
    /\ capacities = DefaultCapacities
    /\ alg = "chromosome_from_assignment"
    /\ arg \in BinaryMatrices
    /\ arg_ndim = 2
    /\ raise_error = FALSE
    /\ ret = 0
    /\ AlgUnset

CallChromosomeFromAssignment ==
    /\ pc = "call"
    /\ alg = "chromosome_from_assignment"
    /\ ret' \in chromosome_from_assignment(arg)
    /\ pc' = "chromosome"
    /\ UNCHANGED <<inputs, arg, arg_ndim, raise_error, alpha, solution,
                   remain_capac, pos, visited, fcs_locals, result>>

CallAssignmentFromChromosome ==
    /\ pc = "chromosome"
    /\ result' = assignment_from_chromosome(ret, NumKs)
    /\ pc' = "done"
    /\ UNCHANGED <<inputs, fn_vars, alpha, solution, remain_capac, pos, visited,
                   fcs_locals>>

NextChromosome == CallChromosomeFromAssignment \/ CallAssignmentFromChromosome

SpecChromosome == InitChromosome /\ [][NextChromosome]_vars

----------------------------------------------------------------------------
\* Properties of the single functions.

\* The sum of f over a finite set.
RECURSIVE SumOver(_, _)
SumOver(f, S) ==
    IF S = {} THEN 0
    ELSE LET x == CHOOSE y \in S : TRUE IN f[x] + SumOver(f, S \ {x})

\* The items of column k of a binary matrix.
Members(A, k) == {i \in DOMAIN A : A[i][k] = 1}

\* The item profits of the members of a knapsack plus the joint profit of
\* every unordered pair of distinct members, counted once.
KnapsackProfit(P, members) ==
    LET pairs == {pr \in members \X members : pr[1] < pr[2]}
    IN SumOver([i \in members |-> P[i][i]], members)
       + SumOver([pr \in pairs |-> P[pr[1]][pr[2]]], pairs)

PairwiseProfit(P, A) ==
    SumOver([k \in DOMAIN A[0] |-> KnapsackProfit(P, Members(A, k))], DOMAIN A[0])

\* The reference instance of tests/test_util.py, test_profit.
RefProfits ==
    [i \in 0 .. 3 |-> [j \in 0 .. 3 |->
        <<<<1, 1, 2, 3>>, <<1, 1, 4, 5>>, <<2, 4, 2, 6>>, <<3, 5, 6, 3>>>>[i + 1][j + 1]]]
RefAssignment ==
    [i \in 0 .. 3 |-> [k \in 0 .. 2 |->
        <<<<0, 0, 1>>, <<1, 0, 0>>, <<1, 0, 0>>, <<0, 0, 1>>>>[i + 1][k + 1]]]

\* C5: for a symmetric profit matrix and a binary assignment,
\* total_profit_qmkp is the sum over the knapsacks of the item profits of the
\* members plus the joint profit of every unordered pair of distinct members
\* counted once (the halved sum is exact); the reference instance gives 14.
C5_TotalProfitPairsOnce ==
    (alg = "total_profit_qmkp" /\ pc = "done") =>
        /\ sum_ks_profits(profits, arg) % 2 = 0
        /\ ret = PairwiseProfit(profits, arg)
        /\ total_profit_qmkp(RefProfits, RefAssignment) = 14

\* total_profit_qmkp has returned for a knapsack of three items with a
\* positive joint profit.
C5_Witness ==
    /\ alg = "total_profit_qmkp"
    /\ pc = "done"
    /\ \E k \in Knapsacks : Cardinality(Members(arg, k)) = NumItems
    /\ \E i, j \in Items : i # j /\ profits[i][j] > 0
    /\ ret > 0

\* The profit item i adds to knapsack k: its own profit and its joint
\* profits with the other items of k.
Synergy(P, A, i, k) ==
    P[i][i] + SumOver([j \in DOMAIN A |-> P[i][j]], Members(A, k) \ {i})

\* C6: value_density returns an N x K matrix with
\* w_i * vd[i,k] = P[i,i] + sum of P[i,j] over the items j # i of knapsack k,
\* whether or not item i is itself in knapsack k.
C6_ValueDensityFormula ==
    (alg = "value_density" /\ pc = "done") =>
        /\ DOMAIN ret = Items
        /\ \A i \in Items : DOMAIN ret[i] = Knapsacks
        /\ \A i \in Items : \A k \in Knapsacks :
              weights[i] * ret[i][k].num
                = ret[i][k].den * Synergy(profits, arg, i, k)

\* value_density has returned for an item that is itself in a knapsack with
\* another item it has a joint profit with.
C6_Witness ==
    /\ alg = "value_density"
    /\ pc = "done"
    /\ \E i, j \in Items : \E k \in Knapsacks :
          /\ i # j
          /\ arg[i][k] = 1
          /\ arg[j][k] = 1
          /\ profits[i][j] > 0
          /\ profits[i][i] > 0
          /\ weights[i] > 1

RowsAtMostOne(A) == \A i \in DOMAIN A : Sum(A[i]) <= 1

\* C7: for a symmetric profit matrix, an assignment with row sums at most 1
\* and an item i unassigned in it, placing i into knapsack k raises
\* total_profit_qmkp by w_i * value_density[i,k].
C7_DensityIsMarginalProfit ==
    (alg = "value_density" /\ pc = "done" /\ RowsAtMostOne(arg)) =>
        \A i \in unassigned_items(arg) : \A k \in Knapsacks :
            (total_profit_qmkp(profits, assign(arg, i, k))
               - total_profit_qmkp(profits, arg)) * ret[i][k].den
              = weights[i] * ret[i][k].num

\* value_density has returned for an unassigned item and a knapsack of two
\* items it has joint profits with.
C7_Witness ==
    /\ alg = "value_density"
    /\ pc = "done"
    /\ RowsAtMostOne(arg)
    /\ \E i \in unassigned_items(arg) : \E k \in Knapsacks :
          /\ Cardinality(Members(arg, k)) = 2
          /\ \A j \in Members(arg, k) : profits[i][j] > 0
          /\ weights[i] > 1

\* The four conditions of a feasible solution.
ShapeOk == arg_ndim = 2 /\ shape(arg) = <<NumItems, NumKs>>
BinaryOk ==
    IF arg_ndim = 2 THEN is_binary(arg) ELSE \A i \in DOMAIN arg : arg[i] \in {0, 1}
RowSumOk == IF arg_ndim = 2 THEN ~some_row_above_one(arg) ELSE TRUE
CapacityOk == ShapeOk => ~some_load_above(arg, weights, capacities)
AllFourOk == ShapeOk /\ BinaryOk /\ RowSumOk /\ CapacityOk

\* C8: with raise_error false, is_feasible_solution returns True exactly
\* when the array has shape N x K, is binary, has row sums at most 1 and
\* loads at most the capacities, and returns False, without raising,
\* otherwise.
C8_ReturnsWhetherFeasible ==
    (alg = "is_feasible_solution" /\ pc # "call" /\ ~raise_error) =>
        /\ ret.raised = ""
        /\ ret.value = AllFourOk

\* The first violated condition in the order shape, binary, row-sum, capacity.
FirstViolated ==
    IF ~ShapeOk THEN "shape"
    ELSE IF ~BinaryOk THEN "binary"
    ELSE IF ~RowSumOk THEN "row_sum"
    ELSE IF ~CapacityOk THEN "capacity"
    ELSE "None"

\* C9: with raise_error true, is_feasible_solution raises a ValueError that
\* reports the first violated condition in the order shape, binary,
\* row-sum, capacity (stated for the 2-D arrays).
C9_ReportsFirstViolation ==
    (/\ alg = "is_feasible_solution"
     /\ pc # "call"
     /\ raise_error
     /\ arg_ndim = 2
     /\ ~AllFourOk)
    => /\ ret.raised = ValueError
       /\ ret.msg = FirstViolated

\* C10: for a binary matrix with row sums at most 1 the chromosome holds the
\* knapsack of each assigned item and -1 for each unassigned item, and
\* assignment_from_chromosome gives the matrix back.
C10_ChromosomeRoundTrip ==
    (alg = "chromosome_from_assignment" /\ RowsAtMostOne(arg)) =>
        /\ pc \in {"chromosome", "done"} =>
              \A i \in Items :
                 /\ i \in unassigned_items(arg) => ret[i] = -1
                 /\ i \notin unassigned_items(arg) =>
                       ret[i] \in Knapsacks /\ arg[i][ret[i]] = 1
        /\ pc = "done" => result = arg

\* The round trip is done for a matrix with an unassigned item, an item in
\* knapsack 0 and an item in the last knapsack.
C10_Witness ==
    /\ alg = "chromosome_from_assignment"
    /\ pc = "done"
    /\ RowsAtMostOne(arg)
    /\ unassigned_items(arg) # {}
    /\ Members(arg, 0) # {}
    /\ Members(arg, NumKs - 1) # {}

----------------------------------------------------------------------------
\* QMKProblem: the construction of an object and the calls on it.

\* The profit matrices of the objects: symmetric, item profits 1, one value
\* for all joint profits.
ObjectProfits == {P \in ProblemProfits : \A i, j \in Items : i # j => P[i][j] = P[0][1]}

\* The weights of the problems, lightest item first, and the capacities,
\* largest knapsack first.
ObjectWeights == {w \in WeightVectors : \A i, j \in Items : i < j => w[i] <= w[j]}

ObjectCapacities ==
    {c \in CapacityVectors : \A k, l \in Knapsacks : k < l => c[k] >= c[l]}

\* The algorithm arguments of __init__ and solve.
GivenAlgorithms == {"None", "constructive_procedure", "round_robin"}

\* Assignments with item 0 placed: the starting assignments passed through
\* args and the assignments argument of __init__.
GivenAssignments == {A \in StartMatrices : count_ones(A) = 1 /\ Sum(A[0]) = 1}

\* The args arguments of __init__ and solve: None, the empty tuple, or a
\* tuple holding a starting assignment.
GivenArgs == {None, Some(<<>>)} \cup {Some(<<A>>) : A \in GivenAssignments}

\* Everything but pc, ret, problem and the arguments of __init__ and solve.
object_locals == <<profits, weights, capacities, alg, starting_assignment,
                   order_ks, len_history, alpha, solution, remain_capac, pos,
                   visited, fcs_locals, result, arg_ndim, raise_error>>

object_frame == <<object_locals, arg>>

InitObject ==
    /\ profits \in ObjectProfits
    /\ weights \in ObjectWeights
    /\ capacities \in ObjectCapacities
    /\ alg = "QMKProblem"
    /\ AlgUnset
    /\ FnUnset

\* problem = QMKProblem(profits, weights, capacities, algorithm, args, assignments)
Construct ==
    /\ pc = "call"
    /\ alg = "QMKProblem"
    /\ \E algorithm \in GivenAlgorithms :
       \E args \in GivenArgs :
       \E assignments \in {None} \cup {Some(A) : A \in GivenAssignments} :
          /\ arg' = assignments
          /\ IF check_dimensions(profits, weights) # "None"
             THEN /\ pc' = "error"
                  /\ ret' = Raised(ValueError, check_dimensions(profits, weights))
                  /\ UNCHANGED problem
             ELSE /\ pc' = "constructed"
                  /\ problem' = Some(QMKProblem(profits, weights, capacities,
                                                 algorithm, args, assignments))
                  /\ ret' = Returned(None)
    /\ UNCHANGED object_locals

\* problem.algorithm = algorithm or problem.args = args, before solve.
SetAttribute ==
    /\ pc = "constructed"
    /\ \/ \E algorithm \in GivenAlgorithms :
             problem' = Some([Get(problem) EXCEPT !.algorithm = algorithm])
       \/ \E args \in GivenArgs :
             problem' = Some([Get(problem) EXCEPT !.args = args])
    /\ UNCHANGED <<object_frame, pc, ret>>

\* The first element of an array after an in-place write of v.
written(name, array, v) ==
    IF name = "profits" THEN [array EXCEPT ![0][0] = v] ELSE [array EXCEPT ![0] = v]

\* problem.profits[0, 0] = v, problem.weights[0] = v or
\* problem.capacities[0] = v: numpy raises a ValueError for a read-only array.
SetItem ==
    /\ pc \in {"constructed", "solved"}
    /\ \E name \in {"profits", "weights", "capacities"} :
       \E v \in {MaxCap + 1} :
          IF name \in Get(problem).read_only
          THEN /\ ret' = Raised(ValueError, "read-only")
               /\ UNCHANGED problem
          ELSE /\ ret' = [Returned(None) EXCEPT !.msg = "written"]
               /\ problem' = Some([Get(problem) EXCEPT
                                      ![name] = written(name, @, v)])
    /\ UNCHANGED <<object_frame, pc>>

\* A read of problem.assignments: an attribute that was never set raises an
\* AttributeError.
GetAssignments ==
    /\ pc \in {"constructed", "solved"}
    /\ ret' = IF IsNone(Get(problem).assignments)
              THEN Raised(AttributeError, "assignments")
              ELSE Returned(Get(Get(problem).assignments))
    /\ UNCHANGED <<object_frame, pc, problem>>

\* problem.solve(algorithm, args), lines 140-150.
Solve ==
    /\ pc = "constructed"
    /\ \E algorithm \in GivenAlgorithms :
       \E args \in GivenArgs :
          LET self == Get(problem)
              f == solve_algorithm(self, algorithm)
              a == solve_args(self, args)
          IN \E out \in call_algorithm(f, self.profits, self.weights,
                                        self.capacities, a) :
             /\ arg' = <<algorithm, args>>
             /\ IF out.raised # ""
                THEN /\ pc' = "error"
                     /\ ret' = out
                     /\ UNCHANGED problem
                ELSE /\ pc' = "solved"
                     /\ ret' = Returned(<<out.value,
                                          total_profit_qmkp(self.profits, out.value)>>)
                     /\ problem' = Some([self EXCEPT !.assignments = Some(out.value)])
    /\ UNCHANGED object_locals

NextObject == Construct \/ SetAttribute \/ SetItem \/ GetAssignments \/ Solve

SpecObject == InitObject /\ [][NextObject]_vars

----------------------------------------------------------------------------
\* Properties of the checks of the arguments.

\* The starting assignment S is invalid: it has an entry other than 0 or 1,
\* or not the shape N x K, or it loads a knapsack beyond its capacity.
InvalidStart(S) ==
    \/ \E i \in DOMAIN S : \E k \in DOMAIN S[i] : S[i][k] \notin {0, 1}
    \/ shape(S) # <<NumItems, NumKs>>
    \/ /\ shape(S) = <<NumItems, NumKs>>
       /\ \E k \in Knapsacks :
             Sum([i \in Items |-> weights[i] * S[i][k]]) > capacities[k]

\* C11: constructive_procedure and round_robin called with an invalid
\* starting assignment raise a ValueError at once, return no assignment and
\* leave the caller's arrays unchanged.
C11_InvalidStartRejected ==
    [][(/\ pc = "call"
        /\ alg \in {"constructive_procedure", "round_robin"}
        /\ ~IsNone(starting_assignment)
        /\ InvalidStart(Get(starting_assignment)))
       => /\ pc' = "error"
          /\ ret'.raised = ValueError
          /\ result' = result
          /\ UNCHANGED <<profits, weights, capacities, starting_assignment>>]_vars

\* round_robin has rejected a binary N x K starting assignment that loads a
\* knapsack beyond its capacity.
C11_Witness ==
    /\ alg = "round_robin"
    /\ pc = "error"
    /\ ~IsNone(starting_assignment)
    /\ is_binary(Get(starting_assignment))
    /\ shape(Get(starting_assignment)) = <<NumItems, NumKs>>
    /\ InvalidStart(Get(starting_assignment))
    /\ ret.raised = ValueError

\* A call of fcs_procedure with a given alpha (a numerator over AlphaDen, from
\* below 0 to above 1) and a given len_history (from below 1).
InitAlpha ==
    /\ InitProblem
    /\ alg = "fcs_procedure"
    /\ starting_assignment = None
    /\ order_ks = None
    /\ alpha \in {Some(a) : a \in -1 .. (AlphaDen + 1)}
    /\ len_history \in -1 .. MaxHistory
    /\ LocalsUnset
    /\ FnUnset

NextAlpha == FCSStart \/ FCSIterate \/ FCSReturn

SpecAlpha == InitAlpha /\ [][NextAlpha]_vars

\* C12: fcs_procedure called with a given alpha raises a ValueError and
\* returns no assignment when alpha <= 0 or alpha >= 1 or len_history < 1,
\* and raises at no step when 0 < alpha < 1 and len_history >= 1.
C12_AlphaAndHistoryChecked ==
    (alg = "fcs_procedure" /\ ~IsNone(alpha) /\ pc # "call") =>
        /\ pc = "error" <=>
              \/ Get(alpha) <= 0
              \/ Get(alpha) >= AlphaDen
              \/ len_history < 1
        /\ pc = "error" => ret.raised = ValueError /\ result = ZeroMatrix

\* fcs_procedure has raised for alpha = 0 and a valid len_history.
C12_Witness ==
    /\ alg = "fcs_procedure"
    /\ pc = "error"
    /\ alpha = Some(0)
    /\ len_history >= 1
    /\ ret.raised = ValueError

\* The sequences of at most n entries of S.
SeqsUpTo(S, n) == UNION {[1 .. m -> S] : m \in 0 .. n}

\* A call of round_robin with order_ks omitted, empty, or a sequence of
\* entries from -1 to K.
InitOrder ==
    /\ InitProblem
    /\ alg = "round_robin"
    /\ starting_assignment = None
    /\ order_ks \in {None} \cup {Some(o) : o \in SeqsUpTo(-1 .. NumKs, MaxOrderLen)}
    /\ alpha = None
    /\ len_history = 1
    /\ LocalsUnset
    /\ FnUnset

NextOrder == RRStart \/ RRPass \/ RRTurn \/ RRReturn

SpecOrder == InitOrder /\ [][NextOrder]_vars

\* order_ks is given and has an entry outside 0 .. K-1.
OrderOutOfRange ==
    /\ ~IsNone(order_ks)
    /\ \E p \in DOMAIN Get(order_ks) : Get(order_ks)[p] \notin Knapsacks

\* C13: round_robin raises a ValueError when order_ks has an entry outside
\* 0 .. K-1 and accepts every other order_ks, with repeated or missing
\* knapsacks too; with order_ks omitted or empty its outcomes are those of
\* order_ks = [0, ..., K-1], and the other way round.
C13_OrderChecked ==
    (alg = "round_robin" /\ IsNone(starting_assignment) /\ pc # "call") =>
        /\ OrderOutOfRange => pc = "error" /\ ret.raised = ValueError
        /\ ~OrderOutOfRange => pc # "error"
        /\ (pc = "done" /\ (IsNone(order_ks) \/ Get(order_ks) = <<>>)) =>
              result \in round_robin(profits, weights, capacities, None,
                                     Some([p \in 1 .. NumKs |-> p - 1]))
        /\ (pc = "done" /\ order_ks = Some([p \in 1 .. NumKs |-> p - 1])) =>
              /\ result \in round_robin(profits, weights, capacities, None, None)
              /\ result \in round_robin(profits, weights, capacities, None,
                                        Some(<<>>))

\* round_robin has returned for an empty order_ks an assignment that the
\* knapsacks taken in descending order cannot give.
C13_Witness ==
    /\ alg = "round_robin"
    /\ pc = "done"
    /\ order_ks = Some(<<>>)
    /\ result \notin round_robin(profits, weights, capacities, None,
                                 Some([p \in 1 .. NumKs |-> NumKs - p]))

----------------------------------------------------------------------------
\* Properties of QMKProblem.

\* C14: the problem data of a constructed QMKProblem is immutable: every
\* in-place write to an element of problem.profits, problem.weights or
\* problem.capacities raises a ValueError and leaves the object as it was,
\* so the stored arrays stay equal to the arrays the object was built from.
C14_ProblemDataReadOnly ==
    /\ [][SetItem => (ret'.raised = ValueError /\ problem' = problem)]_vars
    /\ [](~IsNone(problem) =>
            /\ Get(problem).profits = profits
            /\ Get(problem).weights = weights
            /\ Get(problem).capacities = capacities)

\* A write to an array of a solved problem has raised.
C14_Witness ==
    /\ alg = "QMKProblem"
    /\ pc = "solved"
    /\ ret.raised = ValueError
    /\ ret.msg = "read-only"
    /\ Get(problem).capacities = capacities

----------------------------------------------------------------------------
\* Properties of the calls of the algorithms on the caller's arrays.

\* A call of one of the four algorithms, without or with a starting
\* assignment.
InitCalls == Init \/ InitStart

SpecCalls == InitCalls /\ [][Next]_vars

\* C15: no step of constructive_procedure, round_robin, random_assignment or
\* fcs_procedure changes the caller's profits, weights, capacities or
\* starting_assignment: the remaining capacities and the growing assignment
\* are arrays of the call's own, and so is the matrix that is returned.
C15_InputsNotMutated ==
    /\ [][UNCHANGED <<profits, weights, capacities, starting_assignment>>]_vars
    /\ [](pc = "done" =>
            "starting_assignment" \notin {cp_solution, rr_assignments, ra_assignments})

\* round_robin has returned after it placed an item on top of a starting
\* assignment, so it has written to its two working arrays.
C15_Witness ==
    /\ alg = "round_robin"
    /\ pc = "done"
    /\ ~IsNone(starting_assignment)
    /\ result # Get(starting_assignment)
    /\ remain_capac # capacities
    /\ Get(starting_assignment) # ZeroMatrix

----------------------------------------------------------------------------
\* Properties of QMKProblem.solve.

\* C16: solve calls the algorithm it is passed, or the stored
\* problem.algorithm when it is passed none, on the problem's profits, weights
\* and capacities and the passed args, else the stored problem.args, else no
\* further argument.  It returns an assignment that the direct call of that
\* algorithm gives together with total_profit_qmkp of it, and leaves that
\* assignment in problem.assignments; when the direct call raises, so does
\* solve.
C16_SolveCallsAlgorithm ==
    [][(pc = "constructed" /\ pc' \in {"solved", "error"}) =>
             LET self == Get(problem)
                 algorithm == arg'[1]
                 args == arg'[2]
                 f == IF algorithm # "None" THEN algorithm ELSE self.algorithm
                 a == IF ~IsNone(args) THEN Get(args)
                      ELSE IF ~IsNone(self.args) THEN Get(self.args)
                      ELSE <<>>
             IN \E out \in call_algorithm(f, profits, weights, capacities, a) :
                   IF pc' = "solved"
                   THEN /\ out.raised = ""
                        /\ ret'.raised = ""
                        /\ ret'.value = <<out.value,
                                          total_profit_qmkp(profits, out.value)>>
                        /\ Get(problem').assignments = Some(out.value)
                   ELSE /\ out.raised # ""
                        /\ ret'.raised = out.raised
                        /\ ret'.msg = out.msg]_vars

\* solve, passed neither an algorithm nor args, has returned the assignment
\* of the stored round_robin from the stored starting assignment, an
\* assignment constructive_procedure does not give, with a positive profit.
C16_Witness ==
    /\ pc = "solved"
    /\ ret.raised = ""
    /\ ret.msg = ""
    /\ arg = <<"None", None>>
    /\ Get(problem).algorithm = "round_robin"
    /\ ~IsNone(Get(problem).args)
    /\ Len(Get(Get(problem).args)) = 1
    /\ LET self == Get(problem)
           A == Get(self.assignments)
       IN /\ ret.value = <<A, total_profit_qmkp(profits, A)>>
          /\ ret.value[2] > 0
          /\ A \in round_robin(profits, weights, capacities,
                               Some(Get(self.args)[1]), None)
          /\ \A args \in GivenArgs :
                Returned(A) \notin call_algorithm("constructive_procedure", profits,
                                                  weights, capacities,
                                                  solve_args(self, args))

----------------------------------------------------------------------------
\* Properties of random_assignment.

\* C17: when random_assignment comes to an item that some knapsack can still
\* hold, every one of those knapsacks can get the item and the item can be
\* skipped, also when there is exactly one such knapsack.
C17_EveryChoicePossible ==
    (alg = "random_assignment" /\ pc = "ra_loop") =>
        \A item \in Items \ visited :
            LET avail == avail_ks(weights, remain_capac, item)
            IN avail # {} =>
                  /\ ENABLED (RAVisit /\ visited' = visited \cup {item}
                                      /\ solution' = solution)
                  /\ \A k \in avail :
                        ENABLED (RAVisit /\ visited' = visited \cup {item}
                                         /\ solution' = assign(solution, item, k))

----------------------------------------------------------------------------
\* Properties of the attributes of QMKProblem.

\* C18: after construction, problem.assignments is the all-zero N x K matrix
\* when no assignments argument was given, and the given matrix when one was.
C18_AssignmentsAttribute ==
    (alg = "QMKProblem" /\ pc = "constructed") =>
        Get(problem).assignments =
            IF IsNone(arg) THEN Some(zeros(NumItems, NumKs)) ELSE arg

----------------------------------------------------------------------------
\* Properties of the end of the loops of constructive_procedure and
\* round_robin.

\* C19: when constructive_procedure returns, every item the result leaves
\* unassigned is strictly heavier than what is left of every knapsack
\* (its capacity minus the load the result puts in it), so an item as heavy
\* as what is left of a knapsack is not left out.
C19_NoUnassignedItemFits ==
    (alg = "constructive_procedure" /\ pc = "done") =>
        \A i \in unassigned_items(result) : \A k \in Knapsacks :
            weights[i] > capacities[k] - load(weights, result)[k]

\* C20: when round_robin returns, every item the result leaves unassigned is
\* strictly heavier than what is left of every knapsack of order_ks (every
\* knapsack when order_ks is omitted or empty), so an item as heavy as what
\* is left of such a knapsack is not left out.
C20_NoUnassignedItemFitsInOrder ==
    (alg = "round_robin" /\ pc = "done") =>
        LET o == given_order(capacities, order_ks)
        IN \A i \in unassigned_items(result) : \A p \in DOMAIN o :
              weights[i] > capacities[o[p]] - load(weights, result)[o[p]]

----------------------------------------------------------------------------
\* Properties of the single commits of constructive_procedure and
\* round_robin.

\* C21: every pass of the loop of constructive_procedure commits exactly one
\* pair (i, k): i was unassigned, its weight is at most what is left of k,
\* its density for k, computed from the assignment before the commit, is the
\* greatest among the pairs of an unassigned item and a knapsack that can
\* hold it, and what is left of k goes down by exactly the weight of i.
C21_GreedyCommit ==
    [][(alg = "constructive_procedure" /\ pc = "cp_loop" /\ pc' = "cp_loop") =>
          \E i \in unassigned_items(solution) : \E k \in Knapsacks :
             LET vd == value_density(profits, weights, solution)
             IN /\ solution' = [solution EXCEPT ![i][k] = 1]
                /\ weights[i] <= remain_capac[k]
                /\ \A j \in unassigned_items(solution) : \A l \in Knapsacks :
                      weights[j] <= remain_capac[l] =>
                          ~DensityLess(vd[i][k], vd[j][l])
                /\ remain_capac' = [remain_capac EXCEPT ![k] = @ - weights[i]]]_vars

\* constructive_procedure has committed two items, one after the other, on
\* top of a starting assignment with one placement, with a joint profit
\* between two items.
C21_Witness ==
    /\ alg = "constructive_procedure"
    /\ pc = "cp_loop"
    /\ ~IsNone(starting_assignment)
    /\ count_ones(Get(starting_assignment)) = 1
    /\ count_ones(solution) = 3
    /\ \E i \in Items : \E j \in Items : i # j /\ profits[i][j] > 0

\* C22: in round_robin the knapsacks take their turns in the order of
\* order_ks, pass after pass.  On the turn of knapsack k, when some unassigned
\* item fits what is left of k, exactly one item is committed to k, one of
\* the greatest density for k (computed from the assignment before the
\* commit) among the unassigned items that fit, and what is left of k goes
\* down by its weight; when none fits, the turn commits nothing.  The turn
\* then passes to the next entry of order_ks, and a new pass starts with the
\* first entry.
C22_RoundRobinTurn ==
    [][/\ (alg = "round_robin" /\ pc = "rr_for") =>
             LET o == given_order(capacities, order_ks)
                 k == o[pos]
                 vd == value_density(profits, weights, solution)
                 fit == {i \in unassigned_items(solution) :
                            weights[i] <= remain_capac[k]}
             IN /\ IF fit # {}
                   THEN \E i \in fit :
                           /\ solution' = [solution EXCEPT ![i][k] = 1]
                           /\ \A j \in fit : ~DensityLess(vd[i][k], vd[j][k])
                           /\ remain_capac' =
                                  [remain_capac EXCEPT ![k] = @ - weights[i]]
                   ELSE solution' = solution /\ remain_capac' = remain_capac
                /\ IF pos < Len(o)
                   THEN pc' = "rr_for" /\ pos' = pos + 1
                   ELSE pc' = "rr_while"
       /\ (alg = "round_robin" /\ pc = "rr_while" /\ pc' = "rr_for") =>
             pos' = 1 /\ solution' = solution /\ remain_capac' = remain_capac]_vars

\* round_robin is in its second pass over an order of two turns: the first
\* pass committed an item on one turn and nothing on the other, and an item
\* is still unassigned.
C22_Witness ==
    /\ alg = "round_robin"
    /\ pc = "rr_for"
    /\ pos = 1
    /\ ~IsNone(order_ks)
    /\ Len(Get(order_ks)) = 2
    /\ count_ones(solution) = 1
    /\ unassigned_items(solution) # {}

----------------------------------------------------------------------------
\* Properties of the iterations of fcs_procedure.

\* C23: after every iteration of fcs_procedure the current solution is the
\* candidate s_prime of that iteration, unless the coin flip has overwritten
\* it with solution_best: it is one of the two.
C23_CurrentBecomesCandidate ==
    [][(alg = "fcs_procedure" /\ pc = "fcs_loop" /\ pc' = "fcs_loop") =>
          current_solution' \in {s_prime', solution_best'}]_vars

\* A call of fcs_procedure with alpha = 2 / AlphaDen and a valid len_history
\* on the problems with the lightest item first and the largest knapsack, of
\* capacity MaxCap, first.  The running call always takes its next step.
InitFcs ==
    /\ Init
    /\ alg = "fcs_procedure"
    /\ profits \in ObjectProfits
    /\ weights \in ObjectWeights
    /\ capacities \in {c \in ObjectCapacities : c[0] = MaxCap}
    /\ alpha = Some(2)

NextFcs == FCSStart \/ FCSIterate \/ FCSReturn

SpecFcs == InitFcs /\ [][NextFcs]_vars /\ WF_vars(NextFcs)

\* C24: fcs_procedure with valid parameters returns, whatever the random
\* choices.  Every iteration whose candidate has a strictly greater total
\* profit than the best solution sets the counter no_improvement to 0 and
\* every other iteration adds 1 to it; an iteration runs only while the
\* counter is below len_history, and the call returns solution_best exactly
\* when the counter has reached len_history.
C24_FcsTerminates ==
    /\ <>(pc = "done")
    /\ [][/\ FCSIterates =>
                /\ no_improvement < len_history
                /\ no_improvement' =
                      IF total_profit_qmkp(profits, s_prime')
                           > total_profit_qmkp(profits, solution_best)
                      THEN 0 ELSE no_improvement + 1
          /\ FCSReturns =>
                /\ no_improvement = len_history
                /\ result' = solution_best]_vars

\* fcs_procedure has returned with len_history = 2 a solution better than
\* every outcome of constructive_procedure: an improving iteration has reset
\* the counter, and two iterations without improvement have followed.
C24_Witness ==
    /\ alg = "fcs_procedure"
    /\ pc = "done"
    /\ len_history = 2
    /\ no_improvement = 2
    /\ \A r \in constructive_procedure(profits, weights, capacities, None) :
          total_profit_qmkp(profits, result) > total_profit_qmkp(profits, r)

\* A call of fcs_procedure with alpha at 0, inside (0, 1) or at 1, with
\* len_history at 0 or 1, on capacities that may hold a negative entry.
InitEager ==
    /\ profits \in ObjectProfits
    /\ weights \in ObjectWeights
    /\ capacities \in [Knapsacks -> -1 .. MaxCap]
    /\ alg = "fcs_procedure"
    /\ starting_assignment = None
    /\ order_ks = None
    /\ alpha \in {Some(0), Some(2), Some(AlphaDen)}
    /\ len_history \in 0 .. 1
    /\ LocalsUnset
    /\ FnUnset

NextEager == FCSStart \/ FCSIterate \/ FCSReturn

SpecEager == InitEager /\ [][NextEager]_vars

\* C25: when alpha is outside (0, 1) or len_history is below 1, the call of
\* fcs_procedure ends with the ValueError of that parameter, whatever the
\* profits, weights and capacities are: no outcome of a computation on the
\* problem data comes before it.
C25_ParametersCheckedFirst ==
    (/\ alg = "fcs_procedure"
     /\ pc # "call"
     /\ \/ Get(alpha) <= 0
        \/ Get(alpha) >= AlphaDen
        \/ len_history < 1)
    => /\ pc = "error"
       /\ ret.raised = ValueError
       /\ ret.msg \in {"alpha", "len_history"}

\* C26: in every iteration of fcs_procedure the candidate s_prime is what
\* constructive_procedure gives from current_solution with the rows of
\* exactly floor(|S1| * alpha) items of S1 set to zero, where S1 is the set
\* of the items placed in current_solution, and with every other row as it
\* is.  That starting assignment is feasible, the inner call does not raise,
\* and s_prime holds every placement of current_solution of an item that was
\* not dropped.
C26_PerturbationDropsFloor ==
    [][(alg = "fcs_procedure" /\ pc = "fcs_loop" /\ pc' # "done") =>
          /\ pc' = "fcs_loop"
          /\ LET S1 == {i \in Items : \E k \in Knapsacks : current_solution[i][k] = 1}
                 n == (Cardinality(S1) * Get(alpha)) \div AlphaDen
             IN \E D \in SUBSET S1 :
                   LET start == [i \in Items |->
                                    IF i \in D THEN [k \in Knapsacks |-> 0]
                                    ELSE current_solution[i]]
                   IN /\ Cardinality(D) = n
                      /\ Feasible(start)
                      /\ s_prime' \in constructive_procedure(profits, weights,
                                                             capacities, Some(start))
                      /\ \A i \in Items \ D : \A k \in Knapsacks :
                            current_solution[i][k] = 1 => s_prime'[i][k] = 1]_vars

\* fcs_procedure with alpha = 3/4 holds a current solution with three placed
\* items, of which an iteration drops two, and the candidate of the last
\* iteration differs from it and shares a placement with it.
C26_Witness ==
    /\ alg = "fcs_procedure"
    /\ pc = "fcs_loop"
    /\ alpha = Some(3)
    /\ Cardinality(placed_items(current_solution)) = 3
    /\ s_prime # current_solution
    /\ s_prime # ZeroMatrix
    /\ \E i \in Items : s_prime[i] = current_solution[i] /\ Sum(s_prime[i]) = 1

----------------------------------------------------------------------------
\* Termination of constructive_procedure and round_robin.

\* A call of constructive_procedure or round_robin with a starting
\* assignment that the checks accept, the running call always taking its
\* next step.
InitTerminate ==
    /\ InitStart
    /\ ~start_rejected(weights, capacities, starting_assignment)

SpecTerminate == InitTerminate /\ [][NextStart]_vars /\ WF_vars(NextStart)

\* C27: constructive_procedure and round_robin return on every accepted
\* input.  Every pass of the loop of
\* constructive_procedure commits exactly one item that was unassigned, and
\* every pass of the for loop of round_robin that the while condition lets
\* start leaves fewer unassigned items than it found: the passes are at most
\* as many as the items the starting assignment leaves unassigned.
C27_LoopsTerminate ==
    /\ <>(pc = "done")
    /\ [][(alg = "constructive_procedure" /\ pc = "cp_loop" /\ pc' = "cp_loop") =>
             /\ unassigned_items(solution') \subseteq unassigned_items(solution)
             /\ Cardinality(unassigned_items(solution'))
                  = Cardinality(unassigned_items(solution)) - 1]_vars
    /\ [][(alg = "round_robin" /\ pc = "rr_while" /\ pc' = "rr_for") =>
             \A st \in rr_pass(profits, weights, remain_capac, solution,
                               given_order(capacities, order_ks), 1) :
                /\ unassigned_items(st[2]) \subseteq unassigned_items(solution)
                /\ unassigned_items(st[2]) # unassigned_items(solution)]_vars
    /\ [][(alg = "round_robin" /\ pc = "rr_for") =>
             unassigned_items(solution') \subseteq unassigned_items(solution)]_vars

\* round_robin has returned after two passes on top of a starting
\* assignment with one placement: one knapsack has got the two other items,
\* one in each pass.
C27_Witness ==
    /\ alg = "round_robin"
    /\ pc = "done"
    /\ ~IsNone(starting_assignment)
    /\ count_ones(Get(starting_assignment)) = 1
    /\ unassigned_items(Get(starting_assignment)) # {}
    /\ count_ones(result) = 3
    /\ \E k \in Knapsacks :
          Sum([i \in Items |-> result[i][k] - Get(starting_assignment)[i][k]]) = 2

----------------------------------------------------------------------------
\* Properties of the results on top of a starting assignment.

\* C28: the assignment constructive_procedure or round_robin returns from a
\* starting assignment it accepts is a feasible solution for
\* is_feasible_solution: binary, N x K, every item in at most one knapsack,
\* every knapsack within its capacity.
C28_CompletionFeasible ==
    (alg \in {"constructive_procedure", "round_robin"} /\ pc = "done") =>
        is_feasible_solution(2, result, weights, capacities, FALSE) = Returned(TRUE)

\* A call of round_robin with order_ks omitted, empty or a sequence of
\* knapsacks, without a starting assignment or with one of at most one
\* placement.
InitOrderStart ==
    /\ profits \in ObjectProfits
    /\ weights \in ObjectWeights
    /\ capacities \in CapacityVectors
    /\ alg = "round_robin"
    /\ starting_assignment \in
          {None} \cup {Some(A) : A \in {B \in StartMatrices : count_ones(B) <= 1}}
    /\ order_ks \in {None} \cup {Some(o) : o \in SeqsUpTo(Knapsacks, MaxOrderLen)}
    /\ alpha = None
    /\ len_history = 1
    /\ LocalsUnset
    /\ FnUnset

SpecOrderStart == InitOrderStart /\ [][NextOrder]_vars

\* C29: round_robin places no item into a knapsack that order_ks does not
\* list: at every step and in the result, the column of such a knapsack is
\* the column of the starting assignment, all-zero when none is given.  An
\* omitted or empty order_ks lists every knapsack.
C29_OnlyListedKnapsacks ==
    (alg = "round_robin" /\ pc \in {"rr_while", "rr_for", "done"}) =>
        LET listed == IF IsNone(order_ks) \/ Len(Get(order_ks)) = 0
                      THEN Knapsacks
                      ELSE {Get(order_ks)[p] : p \in DOMAIN Get(order_ks)}
            R == IF pc = "done" THEN result ELSE solution
        IN \A k \in Knapsacks \ listed : \A i \in Items :
              R[i][k] = IF IsNone(starting_assignment) THEN 0
                        ELSE Get(starting_assignment)[i][k]

\* round_robin has returned with order_ks = [1] on top of a starting
\* assignment that places an item in knapsack 0: it has placed an item in
\* knapsack 1 and has left unassigned an item that knapsack 0 can hold.
C29_Witness ==
    /\ alg = "round_robin"
    /\ pc = "done"
    /\ order_ks = Some(<<1>>)
    /\ ~IsNone(starting_assignment)
    /\ \E i \in Items : Get(starting_assignment)[i][0] = 1
    /\ \E i \in Items : result[i][1] = 1
    /\ \E i \in unassigned_items(result) :
          weights[i] < capacities[0] - load(weights, result)[0]

\* C30: with R an assignment constructive_procedure has returned, from a
\* starting assignment it accepts or from none, the call of
\* constructive_procedure on the same problem with R as starting assignment
\* is accepted and returns R and nothing else; and an iteration of
\* fcs_procedure that drops no item has current_solution as its candidate
\* s_prime.
C30_CompletionIdempotent ==
    /\ []((alg = "constructive_procedure" /\ pc = "done") =>
             /\ cp_error(weights, capacities, Some(result)) = "None"
             /\ constructive_procedure(profits, weights, capacities, Some(result))
                  = {result})
    /\ [][(/\ alg = "fcs_procedure"
           /\ pc = "fcs_loop"
           /\ pc' = "fcs_loop"
           /\ (Cardinality(placed_items(current_solution)) * Get(alpha))
                 \div AlphaDen = 0)
          => s_prime' = current_solution]_vars

\* constructive_procedure has returned from a starting assignment with a
\* placement, has added a placement to it and has left an item unassigned.
C30_Witness ==
    /\ alg = "constructive_procedure"
    /\ pc = "done"
    /\ ~IsNone(starting_assignment)
    /\ count_ones(Get(starting_assignment)) >= 1
    /\ result # Get(starting_assignment)
    /\ unassigned_items(result) # {}

====
